---------------------------- MODULE Spec2Model ----------------------------
(***************************************************************************)
(* A model of the disease-prediction decision engine and the weather risk  *)
(* analyzer of the crop-disease backend:                                   *)
(*   src/Backend/utils/weatherService.js   retryApiCall, getWeatherData,   *)
(*       getWeatherForecast, analyzeWeatherRisk,                           *)
(*       generateWeatherRecommendations, getAgricultureAlerts              *)
(*   src/Backend/routes/diseaseRoutes.js   performAdvancedRuleBasedPrediction, *)
(*       getWeatherScore, getSeasonalScore, getBaseConfidence,             *)
(*       getFallbackDiseases, getFallbackPrediction, predictDisease        *)
(*                                                                         *)
(* Text on which the code runs includes()/toLowerCase()/join() is a        *)
(* sequence of one-character strings, so that a substring test is a real   *)
(* substring test.  Confidences are decimal fixed-point hundredths         *)
(* (0.35 is 35); temperatures and humidities are integers.                 *)
(***************************************************************************)
EXTENDS Integers, Sequences, FiniteSets, TLC

---------------------------------------------------------------------------
(* Text                                                                    *)

UpperCase == <<"A","B","C","D","E","F","G","H","I","J","K","L","M",
               "N","O","P","Q","R","S","T","U","V","W","X","Y","Z">>
LowerCase == <<"a","b","c","d","e","f","g","h","i","j","k","l","m",
               "n","o","p","q","r","s","t","u","v","w","x","y","z">>

\* String.prototype.toLowerCase
toLowerCase(s) ==
  [i \in 1..Len(s) |->
     IF \E k \in 1..Len(UpperCase) : UpperCase[k] = s[i]
       THEN LowerCase[CHOOSE k \in 1..Len(UpperCase) : UpperCase[k] = s[i]]
       ELSE s[i]]

\* String.prototype.includes: t occurs in s as a contiguous substring
includes(s, t) ==
  \E i \in 0..(Len(s) - Len(t)) : SubSeq(s, i + 1, i + Len(t)) = t

\* Array.prototype.join(' ')
RECURSIVE join(_)
join(parts) ==
  IF Len(parts) = 0 THEN << >>
  ELSE IF Len(parts) = 1 THEN parts[1]
  ELSE parts[1] \o <<" ">> \o join(Tail(parts))

\* a property that the object does not carry (JavaScript undefined)
Undefined == <<"<undefined>">>

\* the text the code works on, by its literal: each a sequence of characters
Chars ==
     ("  " :> <<" "," ">>) @@
     ("Anthracnose" :> <<"A","n","t","h","r","a","c","n","o","s","e">>) @@
     ("Bacterial Blight" :> <<"B","a","c","t","e","r","i","a","l"," ","B","l","i","g","h","t">>) @@
     ("Bacterial Speck" :> <<"B","a","c","t","e","r","i","a","l"," ","S","p","e","c","k">>) @@
     ("Bacterial Wilt" :> <<"B","a","c","t","e","r","i","a","l"," ","W","i","l","t">>) @@
     ("Brown Spot" :> <<"B","r","o","w","n"," ","S","p","o","t">>) @@
     ("Clear" :> <<"C","l","e","a","r">>) @@
     ("Early Blight" :> <<"E","a","r","l","y"," ","B","l","i","g","h","t">>) @@
     ("Fungal spores" :> <<"F","u","n","g","a","l"," ","s","p","o","r","e","s">>) @@
     ("General Plant Disease" :> <<"G","e","n","e","r","a","l"," ","P","l","a","n","t"," ","D","i","s","e","a","s","e">>) @@
     ("Late Blight" :> <<"L","a","t","e"," ","B","l","i","g","h","t">>) @@
     ("Leaf Rust" :> <<"L","e","a","f"," ","R","u","s","t">>) @@
     ("Light Rain" :> <<"L","i","g","h","t"," ","R","a","i","n">>) @@
     ("Rain" :> <<"R","a","i","n">>) @@
     ("Rice Blast" :> <<"R","i","c","e"," ","B","l","a","s","t">>) @@
     ("Septoria Leaf Spot" :> <<"S","e","p","t","o","r","i","a"," ","L","e","a","f"," ","S","p","o","t">>) @@
     ("Sheath Blight" :> <<"S","h","e","a","t","h"," ","B","l","i","g","h","t">>) @@
     ("Tomato" :> <<"T","o","m","a","t","o">>) @@
     ("Tungro Virus" :> <<"T","u","n","g","r","o"," ","V","i","r","u","s">>) @@
     ("alternaria solani" :> <<"a","l","t","e","r","n","a","r","i","a"," ","s","o","l","a","n","i">>) @@
     ("bacterial" :> <<"b","a","c","t","e","r","i","a","l">>) @@
     ("blast" :> <<"b","l","a","s","t">>) @@
     ("blight" :> <<"b","l","i","g","h","t">>) @@
     ("cool" :> <<"c","o","o","l">>) @@
     ("cool wet conditions" :> <<"c","o","o","l"," ","w","e","t"," ","c","o","n","d","i","t","i","o","n","s">>) @@
     ("cool wet weather" :> <<"c","o","o","l"," ","w","e","t"," ","w","e","a","t","h","e","r">>) @@
     ("drought stress" :> <<"d","r","o","u","g","h","t"," ","s","t","r","e","s","s">>) @@
     ("environmental stress" :> <<"e","n","v","i","r","o","n","m","e","n","t","a","l"," ","s","t","r","e","s","s">>) @@
     ("fungal" :> <<"f","u","n","g","a","l">>) @@
     ("fungal infection" :> <<"f","u","n","g","a","l"," ","i","n","f","e","c","t","i","o","n">>) @@
     ("high humidity" :> <<"h","i","g","h"," ","h","u","m","i","d","i","t","y">>) @@
     ("http://ai" :> <<"h","t","t","p",":","/","/","a","i">>) @@
     ("humid" :> <<"h","u","m","i","d">>) @@
     ("late blight" :> <<"l","a","t","e"," ","b","l","i","g","h","t">>) @@
     ("moisture" :> <<"m","o","i","s","t","u","r","e">>) @@
     ("nutrient deficiency" :> <<"n","u","t","r","i","e","n","t"," ","d","e","f","i","c","i","e","n","c","y">>) @@
     ("phytophthora infestans" :> <<"p","h","y","t","o","p","h","t","h","o","r","a"," ","i","n","f","e","s","t","a","n","s">>) @@
     ("pseudomonas syringae" :> <<"p","s","e","u","d","o","m","o","n","a","s"," ","s","y","r","i","n","g","a","e">>) @@
     ("rice" :> <<"r","i","c","e">>) @@
     ("soil moisture" :> <<"s","o","i","l"," ","m","o","i","s","t","u","r","e">>) @@
     ("spot" :> <<"s","p","o","t">>) @@
     ("tomato" :> <<"t","o","m","a","t","o">>) @@
     ("undefined" :> <<"u","n","d","e","f","i","n","e","d">>) @@
     ("unknown_crop" :> <<"u","n","k","n","o","w","n","_","c","r","o","p">>) @@
     ("various pathogens" :> <<"v","a","r","i","o","u","s"," ","p","a","t","h","o","g","e","n","s">>) @@
     ("warm" :> <<"w","a","r","m">>) @@
     ("warm humid conditions" :> <<"w","a","r","m"," ","h","u","m","i","d"," ","c","o","n","d","i","t","i","o","n","s">>) @@
     ("warm temperature" :> <<"w","a","r","m"," ","t","e","m","p","e","r","a","t","u","r","e">>) @@
     ("wheat" :> <<"w","h","e","a","t">>) @@
     ("wilt" :> <<"w","i","l","t">>) @@
     ("wind-driven rain" :> <<"w","i","n","d","-","d","r","i","v","e","n"," ","r","a","i","n">>)

S(literal) == Chars[literal]


Min(a, b) == IF a < b THEN a ELSE b
Max(a, b) == IF a > b THEN a ELSE b

---------------------------------------------------------------------------
(* Bounds of the model                                                     *)

\* longest forecast list the weather API is taken to return
MaxForecastLen == 26
MaxRequests == 2         \* consultation requests served at the same time
MaxRetryLimit == 5       \* the largest maxRetries retryApiCall is called with

---------------------------------------------------------------------------
(* Program constants                                                       *)

maxRetries == 3          \* retryApiCall default
delay == 1000            \* retryApiCall default, ms
ForecastWindow == 24     \* forecast.forecast.slice(0, 24)
MockForecastLen == 40    \* for (let i = 0; i < 40; i++)

---------------------------------------------------------------------------
(* Weather readings                                                        *)

\* a JavaScript value in the temperature slot: a number (getWeatherData) or
\* the object {current, min, max, feelsLike} (getWeatherForecast items)
Num(n) == [kind |-> "number", v |-> n]
TempObject(current) == [kind |-> "object", v |-> current]

\* x > n and x < n on a JavaScript value: an object converts to NaN and
\* every comparison with NaN is false
GT(x, n) == x.kind = "number" /\ x.v > n
LT(x, n) == x.kind = "number" /\ x.v < n

Reading(t, h, m, e) ==
  [temperature |-> t, humidity |-> h, main |-> m, error |-> e]

\* the fallback reading without its error marker
FallbackReadingUnmarked == Reading(Num(25), 60, S("Clear"), FALSE)

\* the reading getWeatherData returns from its catch block
FallbackReading == Reading(Num(25), 60, S("Clear"), TRUE)

\* the item getWeatherForecast pushes on its mock forecast: temperature.current
\* is 25 + random*10, humidity 60 + random*30, weather.main 'Clear'
MockTemps == {25, 34}
MockHumidities == {60, 75, 89}
MockItem(t, h) == Reading(TempObject(t), h, S("Clear"), FALSE)

\* what the weather API may answer for the current weather
LiveReadings ==
  { Reading(Num(t), h, m, FALSE) :
      t \in {5, 25, 40}, h \in {20, 50, 75, 90},
      m \in {S("Clear"), S("Rain"), S("Light Rain"), Undefined} }
  \cup { Reading(Num(35), 80, S("Rain"), FALSE),
         Reading(Num(10), 70, S("Rain"), FALSE),
         Reading(Num(10), 30, S("Clear"), FALSE) }

\* what the weather API may answer for one forecast item, mapped by
\* getWeatherForecast: temperature becomes an object
CalmItem == Reading(TempObject(25), 60, S("Clear"), FALSE)
HotWetItem == Reading(TempObject(40), 90, S("Rain"), FALSE)
NoConditionItem == Reading(TempObject(25), 60, Undefined, FALSE)
BaseItems == {CalmItem, HotWetItem}
SpecialItems ==
  {CalmItem, HotWetItem, NoConditionItem,
   Reading(TempObject(25), 90, S("Rain"), FALSE),
   Reading(TempObject(5), 90, S("Light Rain"), FALSE)}

\* a list of n items, all b except item p, which is s
ForecastList(n, b, p, s) == [i \in 1..n |-> IF i = p THEN s ELSE b]

---------------------------------------------------------------------------
(* analyzeWeatherRisk and generateWeatherRecommendations                   *)

Risk(type, level) == [type |-> type, level |-> level]

\* weatherData.weather.main.includes(...) on a missing main is a TypeError
analyzeThrows(w) == w.main = Undefined

\* the humidity rule with its limit included
HighHumidityRuleFrom80(w) == w.humidity >= 80

HighHumidityRule(w) == w.humidity > 80
HeatStressRule(w) == GT(w.temperature, 35)
ColdStressRule(w) == ~GT(w.temperature, 35) /\ LT(w.temperature, 10)
WetConditionsRule(w) == includes(w.main, S("Rain")) /\ w.humidity > 70
DroughtStressRule(w) == w.humidity < 30 /\ ~includes(w.main, S("Rain"))

\* the risks pushed by the five rules, in the order of the code
FiredRisks(w) ==
     (IF HighHumidityRule(w) THEN <<Risk("high-humidity", "high")>> ELSE << >>)
  \o (IF HeatStressRule(w) THEN <<Risk("heat-stress", "medium")>> ELSE << >>)
  \o (IF ColdStressRule(w) THEN <<Risk("cold-stress", "medium")>> ELSE << >>)
  \o (IF WetConditionsRule(w) THEN <<Risk("wet-conditions", "high")>> ELSE << >>)
  \o (IF DroughtStressRule(w) THEN <<Risk("drought-stress", "medium")>> ELSE << >>)

\* the risks list at the return statement: the optimal entry is pushed on
\* the same list when it is empty
RisksOf(w) ==
  IF Len(FiredRisks(w)) = 0 THEN <<Risk("optimal", "low")>> ELSE FiredRisks(w)

\* the thresholds one lower: risks.length > 1 ? 'high' : ...
OverallRiskOffByOne(risks) ==
  IF Len(risks) > 1 THEN "high" ELSE IF Len(risks) > 0 THEN "medium" ELSE "low"

\* risks.length > 2 ? 'high' : risks.length > 0 ? 'medium' : 'low'
OverallRisk(risks) ==
  IF Len(risks) > 2 THEN "high" ELSE IF Len(risks) > 0 THEN "medium" ELSE "low"

RecommendationsFor(type) ==
  CASE type = "high-humidity" ->
         <<"Ensure good air circulation around plants",
           "Avoid overhead watering",
           "Apply preventive fungicide if necessary">>
    [] type = "heat-stress" ->
         <<"Provide shade during hottest parts of the day",
           "Increase watering frequency",
           "Monitor for increased pest activity">>
    [] type = "cold-stress" ->
         <<"Protect plants from frost",
           "Reduce watering frequency",
           "Consider using row covers">>
    [] type = "wet-conditions" ->
         <<"Improve drainage around plants",
           "Remove infected plant material promptly",
           "Apply preventive copper-based fungicides">>
    [] type = "drought-stress" ->
         <<"Increase irrigation frequency",
           "Apply mulch to conserve soil moisture",
           "Monitor for spider mites and aphids">>
    [] OTHER -> <<"Continue regular monitoring and care">>

\* [...new Set(list)]: duplicates removed, first occurrence kept
RECURSIVE Dedup(_, _)
Dedup(list, seen) ==
  IF Len(list) = 0 THEN << >>
  ELSE IF Head(list) \in seen THEN Dedup(Tail(list), seen)
  ELSE <<Head(list)>> \o Dedup(Tail(list), seen \cup {Head(list)})

\* the recommendations of the last risk first
RECURSIVE ConcatRecommendationsReversed(_)
ConcatRecommendationsReversed(risks) ==
  IF Len(risks) = 0 THEN << >>
  ELSE ConcatRecommendationsReversed(Tail(risks)) \o RecommendationsFor(Head(risks).type)

RECURSIVE ConcatRecommendations(_)
ConcatRecommendations(risks) ==
  IF Len(risks) = 0 THEN << >>
  ELSE RecommendationsFor(Head(risks).type) \o ConcatRecommendations(Tail(risks))

generateWeatherRecommendations(risks) ==
  Dedup(ConcatRecommendations(risks), {})

\* defined for the readings on which it does not throw
analyzeWeatherRisk(w) ==
  [overallRisk |-> OverallRisk(RisksOf(w)),
   risks |-> RisksOf(w),
   recommendations |-> generateWeatherRecommendations(RisksOf(w))]

---------------------------------------------------------------------------
(* Disease records                                                         *)


Disease(name, causes) == [name |-> name, causes |-> causes]

\* a JavaScript value that may be missing: a number or undefined
UndefinedValue == [kind |-> "undefined", v |-> 0]

---------------------------------------------------------------------------
(* The rule-based scorer, in hundredths                                    *)

\* a flat confidence table whose default is 0.45
getBaseConfidenceHigherDefault(diseaseName, cropType) ==
  IF toLowerCase(cropType) \in {S("tomato"), S("rice")} THEN 50 ELSE 45

\* confidenceMap[cropType?.toLowerCase()]?.[diseaseName] || 0.35
getBaseConfidence(diseaseName, cropType) ==
  LET crop == toLowerCase(cropType) IN
  IF crop = S("tomato") THEN
    CASE diseaseName = S("Early Blight") -> 60
      [] diseaseName = S("Late Blight") -> 55
      [] diseaseName = S("Bacterial Speck") -> 45
      [] diseaseName = S("Anthracnose") -> 50
      [] diseaseName = S("Septoria Leaf Spot") -> 45
      [] diseaseName = S("Bacterial Wilt") -> 40
      [] OTHER -> 35
  ELSE IF crop = S("rice") THEN
    CASE diseaseName = S("Rice Blast") -> 65
      [] diseaseName = S("Brown Spot") -> 55
      [] diseaseName = S("Bacterial Blight") -> 60
      [] diseaseName = S("Sheath Blight") -> 50
      [] diseaseName = S("Tungro Virus") -> 40
      [] OTHER -> 35
  ELSE 35

\* the weather argument of the scorer: absent, or a reading
NoWeather == [present |-> FALSE, reading |-> Reading(Num(0), 0, Undefined, FALSE)]
Weather(r) == [present |-> TRUE, reading |-> r]

HumidRule(disease, w) ==
  LET causesText == toLowerCase(join(disease.causes)) IN
  /\ w.humidity > 70
  /\ \/ includes(causesText, S("fungal"))
     \/ includes(causesText, S("humid"))
     \/ includes(causesText, S("moisture"))
     \/ includes(toLowerCase(disease.name), S("blight"))

WarmRule(disease, w) ==
  LET causesText == toLowerCase(join(disease.causes)) IN
  /\ GT(w.temperature, 25) /\ LT(w.temperature, 35)
  /\ \/ includes(causesText, S("warm"))
     \/ includes(toLowerCase(disease.name), S("blast"))

\* the cool and wet rule with its temperature limit at 15
CoolWetRuleColder(disease, w) ==
  LET causesText == toLowerCase(join(disease.causes)) IN
  /\ LT(w.temperature, 15) /\ w.humidity > 80
  /\ \/ includes(toLowerCase(disease.name), S("late blight"))
     \/ includes(causesText, S("cool"))

CoolWetRule(disease, w) ==
  LET causesText == toLowerCase(join(disease.causes)) IN
  /\ LT(w.temperature, 20) /\ w.humidity > 80
  /\ \/ includes(toLowerCase(disease.name), S("late blight"))
     \/ includes(causesText, S("cool"))

\* the three weather rules as alternatives: only the first that holds counts
getWeatherScoreFirstMatch(disease, weather) ==
  IF ~weather.present THEN 0
  ELSE IF HumidRule(disease, weather.reading) THEN 15
  ELSE IF WarmRule(disease, weather.reading) THEN 10
  ELSE IF CoolWetRule(disease, weather.reading) THEN 20
  ELSE 0

getWeatherScore(disease, weather) ==
  IF ~weather.present THEN 0
  ELSE (IF HumidRule(disease, weather.reading) THEN 15 ELSE 0)
     + (IF WarmRule(disease, weather.reading) THEN 10 ELSE 0)
     + (IF CoolWetRule(disease, weather.reading) THEN 20 ELSE 0)

\* the summer rule with its temperature limit at 25
SummerRuleFrom25(disease, w) ==
  /\ GT(w.temperature, 25)
  /\ \/ includes(toLowerCase(disease.name), S("bacterial"))
     \/ includes(toLowerCase(disease.name), S("wilt"))

SummerRule(disease, w) ==
  /\ GT(w.temperature, 30)
  /\ \/ includes(toLowerCase(disease.name), S("bacterial"))
     \/ includes(toLowerCase(disease.name), S("wilt"))

\* the monsoon rule with its humidity limit included
MonsoonRuleInclusive(disease, w) ==
  /\ GT(w.temperature, 20) /\ LT(w.temperature, 30) /\ w.humidity >= 60
  /\ \/ includes(toLowerCase(disease.name), S("blight"))
     \/ includes(toLowerCase(disease.name), S("spot"))
     \/ includes(toLowerCase(disease.name), S("blast"))

MonsoonRule(disease, w) ==
  /\ GT(w.temperature, 20) /\ LT(w.temperature, 30) /\ w.humidity > 60
  /\ \/ includes(toLowerCase(disease.name), S("blight"))
     \/ includes(toLowerCase(disease.name), S("spot"))
     \/ includes(toLowerCase(disease.name), S("blast"))

\* if (!weather || !weather.temperature) return 0: a temperature of 0 is falsy
getSeasonalScore(disease, weather) ==
  IF ~weather.present \/ weather.reading.temperature = Num(0) THEN 0
  ELSE (IF SummerRule(disease, weather.reading) THEN 10 ELSE 0)
     + (IF MonsoonRule(disease, weather.reading) THEN 10 ELSE 0)

\* the confidence without its cap: Math.max(score, 0.1)
FinalConfidenceUncapped(score) == Max(score, 10)

\* Math.max(Math.min(score, 0.95), 0.1)
FinalConfidence(score) == Max(Min(score, 95), 10)

\* the body of diseases.map(disease => ...)
ScoreDisease(disease, cropType, weather) ==
  [name |-> disease.name,
   confidence |->
     FinalConfidence(getBaseConfidence(disease.name, cropType)
                     + getWeatherScore(disease, weather)
                     + getSeasonalScore(disease, weather)),
   factors |->
        <<"Base">>
     \o (IF getWeatherScore(disease, weather) > 0 THEN <<"Weather">> ELSE << >>)
     \o (IF getSeasonalScore(disease, weather) > 0 THEN <<"Season">> ELSE << >>)]

\* a comparator that also puts b first on a tie
GoesBeforeOnTie(b, a) == b.confidence - a.confidence >= 0

\* the comparator (a, b) => b.confidence - a.confidence is positive: b goes first
GoesBefore(b, a) == b.confidence - a.confidence > 0

\* Array.prototype.sort is stable: x is put after every element that does
\* not have to follow it
RECURSIVE InsertSorted(_, _)
InsertSorted(sorted, x) ==
  IF Len(sorted) = 0 THEN <<x>>
  ELSE IF GoesBefore(x, Head(sorted)) THEN <<x>> \o sorted
  ELSE <<Head(sorted)>> \o InsertSorted(Tail(sorted), x)

RECURSIVE SortByConfidence(_)
SortByConfidence(list) ==
  IF Len(list) = 0 THEN << >>
  ELSE InsertSorted(SortByConfidence(SubSeq(list, 1, Len(list) - 1)), list[Len(list)])

\* scoredDiseases after the sort
ScoredDiseases(diseases, cropType, weather) ==
  SortByConfidence([i \in 1..Len(diseases) |-> ScoreDisease(diseases[i], cropType, weather)])

\* getFallbackDiseases: fallbackData[cropType?.toLowerCase()] || [generic]
getFallbackDiseases(cropType) ==
  LET crop == toLowerCase(cropType) IN
  IF crop = S("tomato") THEN
    << Disease(S("Early Blight"),
               <<S("fungal infection"), S("alternaria solani"), S("warm humid conditions")>>),
       Disease(S("Late Blight"),
               <<S("phytophthora infestans"), S("cool wet weather"), S("high humidity")>>),
       Disease(S("Bacterial Speck"),
               <<S("pseudomonas syringae"), S("cool wet conditions"), S("wind-driven rain")>>) >>
  ELSE IF crop = S("rice") THEN
    << Disease(S("Rice Blast"),
               <<S("fungal infection"), S("high humidity"), S("warm temperature")>>),
       Disease(S("Brown Spot"),
               <<S("fungal infection"), S("nutrient deficiency"), S("drought stress")>>) >>
  ELSE
    << Disease(S("General Plant Disease"),
               <<S("various pathogens"), S("environmental stress")>>) >>

\* the object held by aiPrediction: a scorer's result or the AI model's
\* response body, whose members may be missing
Body(name, confidence, hasAlternatives, alternatives, method) ==
  [null |-> FALSE, diseaseName |-> name, confidence |-> confidence,
   hasAlternatives |-> hasAlternatives,
   alternativePredictions |-> alternatives, method |-> method]

NoMethod == "<undefined>"

Prediction(name, confidence, alternatives, method) ==
  Body(name, confidence, TRUE, alternatives, method)

\* the fallback result without its lookup by crop type
getFallbackPredictionGeneric(cropType) ==
  Prediction(S("General Plant Disease"), Num(30), << >>, "fallback")

\* getFallbackPrediction
getFallbackPrediction(cropType) ==
  LET crop == toLowerCase(cropType) IN
  IF crop = S("tomato") THEN Prediction(S("Early Blight"), Num(40), << >>, "fallback")
  ELSE IF crop = S("rice") THEN Prediction(S("Rice Blast"), Num(40), << >>, "fallback")
  ELSE Prediction(S("General Plant Disease"), Num(30), << >>, "fallback")

Alternative(d) == [diseaseName |-> d.name, confidence |-> Num(d.confidence)]

\* the alternatives taken from the top: slice(0, 3)
AlternativesFromTop(scored) ==
  [i \in 1..Min(Len(scored), 3) |-> Alternative(scored[i])]

\* scoredDiseases.slice(1, 4).map(...)
Alternatives(scored) ==
  [i \in 1..(Min(Len(scored), 4) - 1) |-> Alternative(scored[i + 1])]

\* the store's records followed by the static catalog
CandidatesMerged(found, cropType) == found \o getFallbackDiseases(cropType)

\* the diseases the scorer works on: the store's, or the static catalog when
\* the store has none
Candidates(found, cropType) ==
  IF Len(found) = 0 THEN getFallbackDiseases(cropType) ELSE found

\* performAdvancedRuleBasedPrediction when Disease.find answered found
RuleBasedPrediction(found, cropType, weather) ==
  LET scored == ScoredDiseases(Candidates(found, cropType), cropType, weather) IN
  IF Len(scored) = 0 THEN getFallbackPrediction(cropType)
  ELSE Prediction(scored[1].name, Num(scored[1].confidence),
                  Alternatives(scored), "enhanced_rule_based")

---------------------------------------------------------------------------
(* getAgricultureAlerts: the composition of the alerts                     *)

\* forecast.forecast.slice(0, 24)
upcomingDays(list) == SubSeq(list, 1, Min(Len(list), ForecastWindow))

\* the for loop over upcomingDays: "risk" when an item is assessed high
\* (the loop breaks there), "throw" when analyzeWeatherRisk throws on an
\* item reached before that, "none" otherwise
RECURSIVE ScanUpcoming(_)
ScanUpcoming(items) ==
  IF Len(items) = 0 THEN "none"
  ELSE IF analyzeThrows(Head(items)) THEN "throw"
  ELSE IF analyzeWeatherRisk(Head(items)).overallRisk = "high" THEN "risk"
  ELSE ScanUpcoming(Tail(items))

CurrentWeatherAlert(risk) ==
  [type |-> "current-weather",
   severity |-> risk.overallRisk,
   details |-> risk.risks,
   recommendations |-> risk.recommendations]

ForecastWarningAlert ==
  [type |-> "forecast-warning",
   severity |-> "medium",
   details |-> << >>,
   recommendations |-> <<"Check weather forecast daily",
                         "Prepare preventive treatments",
                         "Ensure drainage systems are clear">>]

\* if (currentRisk.overallRisk !== 'low') alerts.push(...)
CurrentAlerts(cw) ==
  IF analyzeWeatherRisk(cw).overallRisk # "low"
    THEN <<CurrentWeatherAlert(analyzeWeatherRisk(cw))>> ELSE << >>

\* if (forecast.forecast && forecast.forecast.length > 0) { ... }
ForecastAlerts(fc) ==
  IF Len(fc.forecast) > 0 /\ ScanUpcoming(upcomingDays(fc.forecast)) = "risk"
    THEN <<ForecastWarningAlert>> ELSE << >>

\* the body of the outer try throws
AlertsBodyThrows(cw, fc) ==
  \/ analyzeThrows(cw)
  \/ Len(fc.forecast) > 0 /\ ScanUpcoming(upcomingDays(fc.forecast)) = "throw"

\* the object returned at the end of the try block
AlertsBodyResult(cw, fc) ==
  [raised |-> FALSE,
   alertCount |-> Len(CurrentAlerts(cw) \o ForecastAlerts(fc)),
   alerts |-> CurrentAlerts(cw) \o ForecastAlerts(fc),
   error |-> FALSE,
   dataSource |-> IF cw.error THEN "fallback" ELSE "live"]

\* the object returned by the outer catch
AlertsErrorResult ==
  [raised |-> FALSE, alertCount |-> 0, alerts |-> << >>,
   error |-> TRUE, dataSource |-> "fallback"]

\* the handler without its outer try/catch: the error reaches the caller
getAgricultureAlertsUncaught(cw, fc) ==
  IF AlertsBodyThrows(cw, fc) THEN [AlertsErrorResult EXCEPT !.raised = TRUE]
  ELSE AlertsBodyResult(cw, fc)

getAgricultureAlerts(cw, fc) ==
  IF AlertsBodyThrows(cw, fc) THEN AlertsErrorResult
  ELSE AlertsBodyResult(cw, fc)

---------------------------------------------------------------------------
(* The disease store and the AI model's answers                            *)

StoreRecord(crop, name, causes, active) ==
  [cropType |-> crop, name |-> name, causes |-> causes, isActive |-> active]

\* a store seeded for tomato only, with one retired record
TomatoStore ==
  << StoreRecord(S("tomato"), S("Anthracnose"),
                 <<S("Fungal spores"), S("warm humid conditions")>>, TRUE),
     StoreRecord(S("tomato"), S("Bacterial Speck"),
                 <<S("pseudomonas syringae")>>, FALSE),
     StoreRecord(S("tomato"), S("Septoria Leaf Spot"), <<S("fungal infection")>>, TRUE),
     StoreRecord(S("tomato"), S("Bacterial Wilt"), << >>, TRUE),
     StoreRecord(S("tomato"), S("Early Blight"),
                 <<S("fungal infection"), S("warm humid conditions")>>, TRUE),
     StoreRecord(S("tomato"), S("Late Blight"),
                 <<S("cool wet weather"), S("high humidity")>>, TRUE) >>

\* a store with rice records and a wheat record the confidence table lacks
GrainStore ==
  << StoreRecord(S("rice"), S("Bacterial Blight"), <<S("soil moisture")>>, TRUE),
     StoreRecord(S("wheat"), S("Leaf Rust"), <<S("Fungal spores")>>, TRUE),
     StoreRecord(S("rice"), S("Tungro Virus"), << >>, TRUE),
     StoreRecord(S("rice"), S("Rice Blast"),
                 <<S("fungal infection"), S("warm temperature")>>, TRUE) >>

Stores == {<< >>, TomatoStore, GrainStore}

RECURSIVE ActiveOfCrop(_, _)
ActiveOfCrop(list, crop) ==
  IF Len(list) = 0 THEN << >>
  ELSE (IF Head(list).cropType = crop /\ Head(list).isActive
          THEN <<Disease(Head(list).name, Head(list).causes)>> ELSE << >>)
       \o ActiveOfCrop(Tail(list), crop)

\* Disease.find({cropType: cropType?.toLowerCase(), isActive: {$ne: false}})
DiseaseFind(list, cropType) == ActiveOfCrop(list, toLowerCase(cropType))

\* Disease.findOne({name: {$regex: diseaseName, $options: 'i'}, cropType, ...})
\* finds a record: the crop type is matched as given, the name as a
\* case-insensitive substring
DiseaseFindOne(list, diseaseName, cropType) ==
  \E i \in 1..Len(list) :
    /\ list[i].cropType = cropType
    /\ list[i].isActive
    /\ includes(toLowerCase(list[i].name), toLowerCase(diseaseName))

\* the response bodies the AI model is taken to send with a 2xx status
GoodBody ==
  Body(S("Late Blight"), Num(90), TRUE,
       << [diseaseName |-> S("Early Blight"), confidence |-> Num(50)],
          [diseaseName |-> S("Bacterial Speck"), confidence |-> Num(20)] >>, NoMethod)
TaggedBody ==
  Body(S("Rice Blast"), Num(70), FALSE, << >>, "external_model")
FourAlternativesBody ==
  Body(S("Early Blight"), Num(80), TRUE,
       << [diseaseName |-> S("Late Blight"), confidence |-> Num(40)],
          [diseaseName |-> S("Bacterial Speck"), confidence |-> Num(30)],
          [diseaseName |-> S("Anthracnose"), confidence |-> Num(20)],
          [diseaseName |-> S("Bacterial Wilt"), confidence |-> Num(10)] >>, NoMethod)
StrongerAlternativeBody ==
  Body(S("Brown Spot"), Num(30), TRUE,
       << [diseaseName |-> S("Rice Blast"), confidence |-> Num(60)] >>, NoMethod)
AscendingAlternativesBody ==
  Body(S("Early Blight"), Num(85), TRUE,
       << [diseaseName |-> S("Late Blight"), confidence |-> Num(10)],
          [diseaseName |-> S("Bacterial Speck"), confidence |-> Num(45)] >>, NoMethod)
EmptyObjectBody == Body(Undefined, UndefinedValue, FALSE, << >>, NoMethod)
NoConfidenceBody == Body(S("Late Blight"), UndefinedValue, FALSE, << >>, NoMethod)
NullBody == [EmptyObjectBody EXCEPT !.null = TRUE]

WellFormedBodies ==
  {GoodBody, TaggedBody, FourAlternativesBody, StrongerAlternativeBody,
   AscendingAlternativesBody}
MalformedBodies == {EmptyObjectBody, NoConfidenceBody, NullBody}

\* String.prototype.trim, on the blanks
RECURSIVE trimStart(_)
trimStart(s) ==
  IF Len(s) > 0 /\ Head(s) = " " THEN trimStart(Tail(s)) ELSE s
RECURSIVE trimEnd(_)
trimEnd(s) ==
  IF Len(s) > 0 /\ s[Len(s)] = " " THEN trimEnd(SubSeq(s, 1, Len(s) - 1)) ELSE s
trim(s) == trimEnd(trimStart(s))

\* the values process.env.AI_MODEL_BASE_URL may have
ModelUrls == {Undefined, << >>, S("  "), S("undefined"), S("http://ai")}

\* the test of the setting without its trim
AiConfiguredUntrimmed(url) ==
  /\ url # Undefined /\ url # << >>
  /\ url # S("undefined")

\* aiModelUrl && aiModelUrl !== 'undefined' && aiModelUrl.trim() !== ''
AiConfigured(url) ==
  /\ url # Undefined /\ url # << >>
  /\ url # S("undefined")
  /\ trim(url) # << >>

\* the crop types of the requests
CropTypes == {S("tomato"), S("Tomato"), S("rice"), S("wheat"), S("unknown_crop")}

\* what the weather API may answer for the current weather of a prediction
PredictReadings ==
  { Reading(Num(t), h, S("Rain"), FALSE) :
      t \in {18, 22, 28, 32}, h \in {50, 65, 75, 90} }
  \cup { Reading(Num(20), 80, S("Rain"), FALSE),
         Reading(Num(30), 70, S("Clear"), FALSE),
         Reading(Num(35), 90, S("Clear"), FALSE) }

\* the recommendation attached to the response
Recommendation(confidence) ==
  IF LT(confidence, 40)
    THEN "Very low confidence prediction. Strongly recommend consulting an agricultural expert."
  ELSE IF LT(confidence, 60)
    THEN "Low confidence prediction. Consider consulting an expert for confirmation."
  ELSE IF LT(confidence, 80)
    THEN "Moderate confidence prediction. Monitor closely and take preventive measures."
  ELSE "High confidence prediction. Follow recommended treatment guidelines."

\* res.status(200).json(response)
SuccessResponse(p, details, consultation) ==
  [status |-> 200,
   diseaseName |-> p.diseaseName,
   confidence |-> p.confidence,
   alternativePredictions |->
     IF p.hasAlternatives THEN p.alternativePredictions ELSE << >>,
   diseaseDetails |-> details,
   consultation |-> consultation,
   predictionMethod |-> IF p.method # NoMethod THEN p.method ELSE "rule_based",
   recommendation |-> Recommendation(p.confidence)]

\* res.status(code).json({status: 'error', ...})
ErrorResponse(code) ==
  [status |-> code, diseaseName |-> Undefined, confidence |-> UndefinedValue,
   alternativePredictions |-> << >>, diseaseDetails |-> FALSE,
   consultation |-> "none", predictionMethod |-> NoMethod, recommendation |-> ""]

NoResponse == ErrorResponse(0)

\* the consultation saved for an authenticated user, by its priority
Consultation(user, p) ==
  IF user = "saved"
    THEN (IF LT(p.confidence, 70) THEN "high" ELSE "medium")
    ELSE "none"
Users == {"anonymous", "saved", "save-failed"}

---------------------------------------------------------------------------
(* State                                                                   *)

VARIABLES
  apiKey,          \* process.env.OPENWEATHER_API_KEY is set
  retryLimit,      \* retryApiCall: the maxRetries it is called with
  call,            \* the weather fetch in flight, or "none" / "returned"
  attempt,         \* retryApiCall's attempt, 0 outside its loop
  waits,           \* the waits retryApiCall has made in this call, ms
  ret,             \* what the fetch returned
  retFailed,       \* the fetch returned from its catch block
  al_pc,           \* getAgricultureAlerts: where the handler is
  currentWeather,  \* getAgricultureAlerts: let currentWeather
  forecast,        \* getAgricultureAlerts: let forecast
  curFailed,       \* the current-weather retrieval failed
  fcFailed,        \* the forecast retrieval failed
  currentRisk,     \* getAgricultureAlerts: const currentRisk
  alResult,        \* what getAgricultureAlerts returned
  aiModelUrl,      \* process.env.AI_MODEL_BASE_URL
  store,           \* the Disease collection
  pr_pc,           \* predictDisease: where the handler is
  cropType,        \* predictDisease: req.body.cropType
  weatherData,     \* predictDisease: predictionData.weatherData
  aiOutcome,       \* how the call of the AI model ended, "none" without a call
  tried,           \* the strategies started for this request, in order
  findOutcome,     \* how the scorer's Disease.find ended, "none" without one
  detailsOutcome,  \* how the handler's Disease.findOne ended, "none" without one
  diseases,        \* performAdvancedRuleBasedPrediction: let diseases
  scoredDiseases,  \* performAdvancedRuleBasedPrediction: scoredDiseases, sorted
  aiPrediction,    \* predictDisease: let aiPrediction
  response,        \* predictDisease: what was sent
  consultation,    \* the Consultation document in the database
  requests         \* the assignExpert and rateConsultation requests being served

weatherVars == <<apiKey, retryLimit, call, attempt, waits, ret, retFailed>>
alertVars == <<al_pc, currentWeather, forecast, curFailed, fcFailed,
               currentRisk, alResult>>
predictVars == <<aiModelUrl, store, pr_pc, cropType, weatherData, aiOutcome,
                 tried, findOutcome, detailsOutcome, diseases, scoredDiseases,
                 aiPrediction, response>>
consultVars == <<consultation, requests>>
vars == <<weatherVars, alertVars, predictVars, consultVars>>

Fetches == {"getWeatherData", "getWeatherForecast"}

NoReading == Reading(Num(0), 0, Undefined, FALSE)
NoForecast == [forecast |-> << >>, error |-> FALSE]
NoRisk == [overallRisk |-> "none", risks |-> << >>, recommendations |-> << >>]
NoResult == [raised |-> FALSE, alertCount |-> 0, alerts |-> << >>,
             error |-> FALSE, dataSource |-> "none"]
NoPrediction == Body(Undefined, UndefinedValue, FALSE, << >>, NoMethod)

WeatherInit ==
  /\ apiKey \in BOOLEAN
  /\ call = "none"
  /\ attempt = 0
  /\ waits = << >>
  /\ ret = NoReading
  /\ retFailed = FALSE

AlertsInit ==
  /\ al_pc = "idle"
  /\ currentWeather = NoReading
  /\ forecast = NoForecast
  /\ curFailed = FALSE
  /\ fcFailed = FALSE
  /\ currentRisk = NoRisk
  /\ alResult = NoResult

\* no request of predictDisease is being served
PredictIdle ==
  /\ pr_pc = "idle"
  /\ cropType = Undefined
  /\ weatherData = NoWeather
  /\ aiOutcome = "none"
  /\ tried = << >>
  /\ findOutcome = "none"
  /\ detailsOutcome = "none"
  /\ diseases = << >>
  /\ scoredDiseases = << >>
  /\ aiPrediction = NoPrediction
  /\ response = NoResponse

---------------------------------------------------------------------------
(* retryApiCall, getWeatherData, getWeatherForecast                        *)

\* the mock forecast built in getWeatherForecast's catch block
MockForecasts ==
  { [forecast |-> ForecastList(MockForecastLen, MockItem(t, h), 1, MockItem(t, h2)),
     error |-> TRUE] :
      t \in MockTemps, h \in MockHumidities, h2 \in MockHumidities }

\* the forecasts getWeatherForecast maps from a well-formed API answer: empty,
\* one item, exactly the window, and longer than the window, with the special
\* item first, last in the window or first after it
ForecastLens == {0, 1, ForecastWindow, MaxForecastLen}
SpecialPositions == {1, ForecastWindow, ForecastWindow + 1}
LiveForecasts ==
  { [forecast |-> ForecastList(n, b, p, s), error |-> FALSE] :
      n \in ForecastLens, b \in BaseItems,
      p \in SpecialPositions, s \in SpecialItems }

\* what the catch block of the fetch in flight returns
CatchReturns(fetch) ==
  IF fetch = "getWeatherData" THEN {FallbackReading} ELSE MockForecasts

\* what the try block of the fetch in flight returns on a well-formed answer
TryReturns(fetch) ==
  IF fetch = "getWeatherForecast" THEN LiveForecasts
  ELSE IF pr_pc = "weather" THEN PredictReadings
  ELSE LiveReadings

\* the fetch returns r, from its catch block when failed
Return(r, failed) ==
  /\ ret' = r
  /\ retFailed' = failed
  /\ call' = "returned"
  /\ attempt' = 0

\* if (!apiKey) throw ...: caught by the fetch's own catch block
ApiKeyMissing ==
  /\ call \in Fetches /\ attempt = 0 /\ ~apiKey
  /\ \E r \in CatchReturns(call) : Return(r, TRUE)
  /\ UNCHANGED <<consultVars, apiKey, retryLimit, waits, alertVars, predictVars>>

\* retryApiCall enters its loop: attempt = 1
RetryStart ==
  /\ call \in Fetches /\ attempt = 0 /\ apiKey
  /\ attempt' = 1
  /\ waits' = << >>
  /\ UNCHANGED <<consultVars, apiKey, retryLimit, call, ret, retFailed, alertVars, predictVars>>

\* apiCall() throws before the last attempt: wait delay * attempt, go on
ApiCallFailsRetry ==
  /\ call \in Fetches /\ attempt >= 1 /\ attempt # retryLimit
  /\ waits' = Append(waits, delay * attempt)
  /\ attempt' = attempt + 1
  /\ UNCHANGED <<consultVars, apiKey, retryLimit, call, ret, retFailed, alertVars, predictVars>>

\* apiCall() throws on the last attempt and the loop starts over
ApiCallFailsLastRestarts ==
  /\ call \in Fetches /\ attempt = retryLimit
  /\ attempt' = 1
  /\ waits' = << >>
  /\ UNCHANGED <<consultVars, apiKey, retryLimit, call, ret, retFailed, alertVars, predictVars>>

\* apiCall() throws on the last attempt: retryApiCall rethrows, the fetch's
\* catch block returns the fallback
ApiCallFailsLast ==
  /\ call \in Fetches /\ attempt = retryLimit
  /\ \E r \in CatchReturns(call) : Return(r, TRUE)
  /\ UNCHANGED <<consultVars, apiKey, retryLimit, waits, alertVars, predictVars>>

\* apiCall() answers and the answer has the shape the mapping reads
ApiCallSucceeds ==
  /\ call \in Fetches /\ attempt >= 1
  /\ \E r \in TryReturns(call) : Return(r, FALSE)
  /\ UNCHANGED <<consultVars, apiKey, retryLimit, waits, alertVars, predictVars>>

\* apiCall() answers with a body the mapping cannot read (a TypeError on a
\* missing member): the fetch's catch block returns the fallback
ApiCallMalformed ==
  /\ call \in Fetches /\ attempt >= 1
  /\ \E r \in CatchReturns(call) : Return(r, TRUE)
  /\ UNCHANGED <<consultVars, apiKey, retryLimit, waits, alertVars, predictVars>>

---------------------------------------------------------------------------
(* getAgricultureAlerts: the handler.  getWeatherData and                  *)
(* getWeatherForecast catch every error themselves, so the handler's own   *)
(* catch blocks around the two calls are never entered.                    *)

AlertsRequest ==
  /\ al_pc = "idle" /\ pr_pc = "idle" /\ call = "none"
  /\ al_pc' = "current"
  /\ call' = "getWeatherData"
  /\ UNCHANGED <<consultVars, apiKey, retryLimit, attempt, waits, ret, retFailed, predictVars,
                 currentWeather, forecast, curFailed, fcFailed,
                 currentRisk, alResult>>

\* currentWeather = await getWeatherData(...); then getWeatherForecast is called
AlertsGotCurrent ==
  /\ al_pc = "current" /\ call = "returned"
  /\ currentWeather' = ret
  /\ curFailed' = retFailed
  /\ al_pc' = "forecast"
  /\ call' = "getWeatherForecast"
  /\ UNCHANGED <<consultVars, apiKey, retryLimit, attempt, waits, ret, retFailed, predictVars,
                 forecast, fcFailed, currentRisk, alResult>>

\* forecast = await getWeatherForecast(...); the rest of the handler runs
AlertsGotForecast ==
  /\ al_pc = "forecast" /\ call = "returned"
  /\ forecast' = ret
  /\ fcFailed' = retFailed
  /\ currentRisk' = IF analyzeThrows(currentWeather) THEN NoRisk
                    ELSE analyzeWeatherRisk(currentWeather)
  /\ alResult' = getAgricultureAlerts(currentWeather, ret)
  /\ al_pc' = "done"
  /\ call' = "none"
  /\ UNCHANGED <<consultVars, apiKey, retryLimit, attempt, waits, ret, retFailed, predictVars,
                 currentWeather, curFailed>>

\* the result is handed to the caller; the next request starts afresh
AlertsReturn ==
  /\ al_pc = "done"
  /\ al_pc' = "idle"
  /\ currentWeather' = NoReading
  /\ forecast' = NoForecast
  /\ curFailed' = FALSE
  /\ fcFailed' = FALSE
  /\ currentRisk' = NoRisk
  /\ alResult' = NoResult
  /\ ret' = NoReading
  /\ retFailed' = FALSE
  /\ waits' = << >>
  /\ UNCHANGED <<consultVars, apiKey, retryLimit, call, attempt, predictVars>>

---------------------------------------------------------------------------
(* assignExpert and rateConsultation: the Consultation document as the     *)
(* two handlers read and write it                                          *)

NoExpert == "none"
NoRating == UndefinedValue

\* the Consultation document: userId is its creator
Document(exists, status, expertId, rating) ==
  [exists |-> exists, userId |-> "f1", status |-> status,
   expertId |-> expertId, rating |-> rating]

MissingDocument == Document(FALSE, "open", NoExpert, NoRating)

\* the documents requests may find: none, an open one, one in progress, and
\* closed ones with and without expert
StoredConsultations ==
  { MissingDocument,
    Document(TRUE, "open", NoExpert, NoRating),
    Document(TRUE, "in_progress", "e1", NoRating),
    Document(TRUE, "closed", "e1", NoRating),
    Document(TRUE, "closed", NoExpert, NoRating) }

\* req.user of a request
Callers ==
  { [id |-> "f1", role |-> "farmer"], [id |-> "f2", role |-> "farmer"],
    [id |-> "e1", role |-> "expert"], [id |-> "e2", role |-> "expert"],
    [id |-> "a1", role |-> "admin"] }

\* User.findOne({_id, role: 'expert', isActive: true}) finds these
ActiveExperts == {"e1", "e2"}

\* req.body.expertId: missing, an active expert, an inactive one
ExpertIds == {NoExpert, "e2", "e3"}

\* req.body.rating: missing or a number
Ratings == {NoRating, Num(0), Num(1), Num(5), Num(6)}

\* the requests served at the same time
Slots == 1..MaxRequests

\* a request: the handler, where it is, what it holds and what it answered
Request(op, pc, caller, target, rating, doc, status) ==
  [op |-> op, pc |-> pc, caller |-> caller, target |-> target,
   rating |-> rating, doc |-> doc, status |-> status]

IdleRequest ==
  Request("none", "idle", "none", NoExpert, NoRating, MissingDocument, 0)

\* no consultation request is being served
ConsultIdle ==
  /\ consultation = MissingDocument
  /\ requests = [r \in Slots |-> IdleRequest]

\* res.status(code).json(...): the request ends
Answered(req, code) == [req EXCEPT !.pc = "done", !.status = code]

\* assignExpert up to its second await: the document is read, the status
\* and the caller's role are checked, the expert is looked up
assignExpertRead(caller, expertId) ==
  LET req == Request("assign", "read", caller.id, NoExpert, NoRating, consultation, 0)
  IN  IF ~consultation.exists THEN Answered(req, 404)
      ELSE IF consultation.status # "open" THEN Answered(req, 400)
      ELSE IF caller.role = "expert" /\ expertId = NoExpert
        THEN [req EXCEPT !.pc = "findExpert", !.target = caller.id]
      ELSE IF caller.role # "admin" THEN Answered(req, 403)
      ELSE [req EXCEPT !.pc = "findExpert", !.target = expertId]

AssignFindById ==
  \E r \in Slots, caller \in Callers, expertId \in ExpertIds :
    /\ requests[r].pc = "idle"
    /\ requests' = [requests EXCEPT ![r] = assignExpertRead(caller, expertId)]
    /\ UNCHANGED <<consultation, weatherVars, alertVars, predictVars>>

\* User.findOne has answered: without an active expert 400, else the
\* document held by the request is changed and its save is under way
AssignFoundExpert ==
  \E r \in Slots :
    /\ requests[r].op = "assign" /\ requests[r].pc = "findExpert"
    /\ requests' =
         [requests EXCEPT ![r] =
            IF requests[r].target \in ActiveExperts
              THEN [requests[r] EXCEPT !.pc = "save"]
              ELSE Answered(requests[r], 400)]
    /\ UNCHANGED <<consultation, weatherVars, alertVars, predictVars>>

\* consultation.save() writes the changed paths expertId and status; the
\* expert is populated next
AssignSaved ==
  \E r \in Slots :
    /\ requests[r].op = "assign" /\ requests[r].pc = "save"
    /\ consultation' = [consultation EXCEPT !.expertId = requests[r].target,
                                            !.status = "in_progress"]
    /\ requests' = [requests EXCEPT ![r] = [requests[r] EXCEPT !.pc = "populate"]]
    /\ UNCHANGED <<weatherVars, alertVars, predictVars>>

\* the e-mails are sent, their errors caught; 200
AssignResponds ==
  \E r \in Slots :
    /\ requests[r].op = "assign" /\ requests[r].pc = "populate"
    /\ requests' = [requests EXCEPT ![r] = Answered(requests[r], 200)]
    /\ UNCHANGED <<consultation, weatherVars, alertVars, predictVars>>

\* if (consultation.rating): a number other than 0 is truthy
Rated(doc) == doc.rating.kind = "number" /\ doc.rating.v # 0

\* rateConsultation up to its second await: the document is read, the
\* creator, the status, the old rating and the new one are checked
rateConsultationRead(caller, rating) ==
  LET req == Request("rate", "read", caller.id, NoExpert, rating, consultation, 0)
  IN  IF ~consultation.exists THEN Answered(req, 404)
      ELSE IF consultation.userId # caller.id THEN Answered(req, 403)
      ELSE IF consultation.status # "closed" THEN Answered(req, 400)
      ELSE IF Rated(consultation) THEN Answered(req, 400)
      ELSE IF LT(rating, 1) \/ GT(rating, 5) THEN Answered(req, 400)
      ELSE [req EXCEPT !.pc = "save"]

RateFindById ==
  \E r \in Slots, caller \in Callers, rating \in Ratings :
    /\ requests[r].pc = "idle"
    /\ requests' = [requests EXCEPT ![r] = rateConsultationRead(caller, rating)]
    /\ UNCHANGED <<consultation, weatherVars, alertVars, predictVars>>

\* consultation.save() writes the changed path rating; with an expert the
\* expert's statistics are updated next
RateSaved ==
  \E r \in Slots :
    /\ requests[r].op = "rate" /\ requests[r].pc = "save"
    /\ consultation' = [consultation EXCEPT !.rating = requests[r].rating]
    /\ requests' =
         [requests EXCEPT ![r] =
            IF requests[r].doc.expertId # NoExpert
              THEN [requests[r] EXCEPT !.pc = "statistics"]
              ELSE Answered(requests[r], 200)]
    /\ UNCHANGED <<weatherVars, alertVars, predictVars>>

\* the expert's averageRating and totalRatings are saved; 200
RateStatisticsSaved ==
  \E r \in Slots :
    /\ requests[r].op = "rate" /\ requests[r].pc = "statistics"
    /\ requests' = [requests EXCEPT ![r] = Answered(requests[r], 200)]
    /\ UNCHANGED <<consultation, weatherVars, alertVars, predictVars>>

\* an await of either handler rejects: the catch block answers 500
ConsultationThrows ==
  \E r \in Slots :
    /\ requests[r].pc \in {"findExpert", "save", "populate", "statistics"}
    /\ requests' = [requests EXCEPT ![r] = Answered(requests[r], 500)]
    /\ UNCHANGED <<consultation, weatherVars, alertVars, predictVars>>

ConsultNext ==
  \/ AssignFindById
  \/ AssignFoundExpert
  \/ AssignSaved
  \/ AssignResponds
  \/ RateFindById
  \/ RateSaved
  \/ RateStatisticsSaved
  \/ ConsultationThrows

---------------------------------------------------------------------------
(* predictDisease: the handler                                             *)

\* what a request carries: an image or none, a crop type or none, whether
\* the upload works, environmentalData and location as sent
Requests ==
  [file : BOOLEAN,
   cropType : CropTypes \cup {Undefined},
   upload : BOOLEAN,
   environmentalData : {"absent", "json", "garbage"},
   location : {"absent", "valid", "out-of-range", "garbage"}]

\* the handler answers with an error status and ends
Reply(code) ==
  /\ response' = ErrorResponse(code)
  /\ pr_pc' = "done"

\* "Try AI model first, fallback to enhanced rule-based": axios.post is
\* called when the setting is configured, else the scorer is
StartStrategy ==
  IF AiConfigured(aiModelUrl)
    THEN pr_pc' = "ai" /\ tried' = <<"external_model">>
    ELSE pr_pc' = "score" /\ tried' = <<"rule_based">>

\* the request is read; without a usable location no weather is fetched
PredictRequest ==
  /\ pr_pc = "idle" /\ al_pc = "idle" /\ call = "none"
  /\ \E req \in Requests :
       IF ~req.file \/ req.cropType = Undefined
         THEN /\ Reply(400)
              /\ UNCHANGED <<cropType, tried, call>>
       ELSE IF ~req.upload \/ req.environmentalData = "garbage"
         THEN /\ Reply(500)
              /\ UNCHANGED <<cropType, tried, call>>
       ELSE IF req.location = "valid"
         THEN /\ cropType' = req.cropType
              /\ pr_pc' = "weather"
              /\ call' = "getWeatherData"
              /\ UNCHANGED <<tried, response>>
       ELSE /\ cropType' = req.cropType
            /\ StartStrategy
            /\ UNCHANGED <<call, response>>
  /\ UNCHANGED <<consultVars, apiKey, retryLimit, attempt, waits, ret, retFailed, alertVars,
                 aiModelUrl, store, weatherData, aiOutcome, findOutcome,
                 detailsOutcome, diseases, scoredDiseases, aiPrediction>>

\* predictionData.weatherData = await getWeatherData(...)
PredictGotWeather ==
  /\ pr_pc = "weather" /\ call = "returned"
  /\ weatherData' = Weather(ret)
  /\ call' = "none"
  /\ StartStrategy
  /\ UNCHANGED <<consultVars, apiKey, retryLimit, attempt, waits, ret, retFailed, alertVars,
                 aiModelUrl, store, cropType, aiOutcome, findOutcome,
                 detailsOutcome, diseases, scoredDiseases, aiPrediction, response>>

\* axios.post throws and the call is made again
AiCallThrowsRetries ==
  /\ pr_pc = "ai"
  /\ aiOutcome' = "threw"
  /\ tried' = Append(tried, "external_model")
  /\ pr_pc' = "ai"
  /\ UNCHANGED <<consultVars, weatherVars, alertVars, aiModelUrl, store, cropType,
                 weatherData, findOutcome, detailsOutcome, diseases, scoredDiseases,
                 aiPrediction, response>>

\* axios.post throws: a timeout, a network error or a status outside 2xx;
\* the catch block calls the scorer
AiCallThrows ==
  /\ pr_pc = "ai"
  /\ aiOutcome' = "threw"
  /\ tried' = Append(tried, "rule_based")
  /\ pr_pc' = "score"
  /\ UNCHANGED <<consultVars, weatherVars, alertVars, aiModelUrl, store, cropType,
                 weatherData, findOutcome, detailsOutcome, diseases, scoredDiseases,
                 aiPrediction, response>>

\* axios.post answers 2xx: aiPrediction = response.data, whatever it holds
AiCallAnswers ==
  /\ pr_pc = "ai"
  /\ \E body \in WellFormedBodies \cup MalformedBodies :
       /\ aiPrediction' = body
       /\ aiOutcome' = IF body \in WellFormedBodies THEN "answered" ELSE "malformed"
  /\ pr_pc' = "details"
  /\ UNCHANGED <<consultVars, weatherVars, alertVars, aiModelUrl, store, cropType,
                 weatherData, tried, findOutcome, detailsOutcome, diseases, scoredDiseases,
                 response>>

\* performAdvancedRuleBasedPrediction: Disease.find answers
ScorerRuns ==
  /\ pr_pc = "score"
  /\ findOutcome' = "answered"
  /\ diseases' = Candidates(DiseaseFind(store, cropType), cropType)
  /\ scoredDiseases' =
       ScoredDiseases(Candidates(DiseaseFind(store, cropType), cropType),
                      cropType, weatherData)
  /\ aiPrediction' = RuleBasedPrediction(DiseaseFind(store, cropType),
                                         cropType, weatherData)
  /\ pr_pc' = "details"
  /\ UNCHANGED <<consultVars, weatherVars, alertVars, aiModelUrl, store, cropType,
                 weatherData, aiOutcome, tried, detailsOutcome, response>>

\* performAdvancedRuleBasedPrediction: Disease.find throws, the catch block
\* returns getFallbackPrediction(cropType)
ScorerStoreThrows ==
  /\ pr_pc = "score"
  /\ findOutcome' = "threw"
  /\ tried' = Append(tried, "fallback")
  /\ aiPrediction' = getFallbackPrediction(cropType)
  /\ pr_pc' = "details"
  /\ UNCHANGED <<consultVars, weatherVars, alertVars, aiModelUrl, store, cropType,
                 weatherData, aiOutcome, detailsOutcome, diseases, scoredDiseases, response>>

\* a diseaseName that is missing or empty is falsy: no Disease.findOne
Truthy(name) == name # Undefined /\ name # << >>

\* the rest of the handler: the details are looked up, the consultation is
\* saved for an authenticated user, the response is sent.  Reading a member
\* of a null body is a TypeError, answered by the outer catch
Respond ==
  /\ pr_pc = "details"
  /\ detailsOutcome' =
       IF ~aiPrediction.null /\ Truthy(aiPrediction.diseaseName)
         THEN "answered" ELSE "none"
  /\ \E user \in Users :
       response' =
         IF aiPrediction.null THEN ErrorResponse(500)
         ELSE SuccessResponse(
                aiPrediction,
                /\ Truthy(aiPrediction.diseaseName)
                /\ DiseaseFindOne(store, aiPrediction.diseaseName, cropType),
                Consultation(user, aiPrediction))
  /\ pr_pc' = "done"
  /\ UNCHANGED <<consultVars, weatherVars, alertVars, aiModelUrl, store, cropType,
                 weatherData, aiOutcome, tried, findOutcome, diseases, scoredDiseases,
                 aiPrediction>>

\* Disease.findOne throws: the outer catch answers 500
RespondStoreThrows ==
  /\ pr_pc = "details"
  /\ ~aiPrediction.null /\ Truthy(aiPrediction.diseaseName)
  /\ detailsOutcome' = "threw"
  /\ response' = ErrorResponse(500)
  /\ pr_pc' = "done"
  /\ UNCHANGED <<consultVars, weatherVars, alertVars, aiModelUrl, store, cropType,
                 weatherData, aiOutcome, tried, findOutcome, diseases, scoredDiseases,
                 aiPrediction>>

\* the response is out; the next request starts afresh
PredictReturn ==
  /\ pr_pc = "done"
  /\ pr_pc' = "idle"
  /\ cropType' = Undefined
  /\ weatherData' = NoWeather
  /\ aiOutcome' = "none"
  /\ tried' = << >>
  /\ findOutcome' = "none"
  /\ detailsOutcome' = "none"
  /\ diseases' = << >>
  /\ scoredDiseases' = << >>
  /\ aiPrediction' = NoPrediction
  /\ response' = NoResponse
  /\ ret' = NoReading
  /\ retFailed' = FALSE
  /\ waits' = << >>
  /\ UNCHANGED <<consultVars, apiKey, retryLimit, call, attempt, alertVars, aiModelUrl, store>>

---------------------------------------------------------------------------
(* Specifications                                                          *)

\* getWeatherData is called by a caller other than the two handlers
RetryCall ==
  /\ call = "none" /\ al_pc = "idle" /\ pr_pc = "idle"
  /\ call' = "getWeatherData"
  /\ UNCHANGED <<consultVars, apiKey, retryLimit, attempt, waits, ret, retFailed,
                 alertVars, predictVars>>

\* that call has returned; the next one starts afresh
RetryCallReturns ==
  /\ call = "returned" /\ al_pc = "idle" /\ pr_pc = "idle"
  /\ call' = "none"
  /\ ret' = NoReading
  /\ retFailed' = FALSE
  /\ waits' = << >>
  /\ UNCHANGED <<consultVars, apiKey, retryLimit, attempt, alertVars, predictVars>>

FetchNext ==
  \/ ApiKeyMissing
  \/ RetryStart
  \/ ApiCallFailsRetry
  \/ ApiCallFailsLast
  \/ ApiCallSucceeds
  \/ ApiCallMalformed

AlertsNext ==
  \/ AlertsRequest
  \/ AlertsGotCurrent
  \/ AlertsGotForecast
  \/ AlertsReturn
  \/ FetchNext

PredictNext ==
  \/ PredictRequest
  \/ PredictGotWeather
  \/ AiCallThrows
  \/ AiCallAnswers
  \/ ScorerRuns
  \/ ScorerStoreThrows
  \/ Respond
  \/ RespondStoreThrows
  \/ PredictReturn
  \/ FetchNext

\* requests for weather alerts, in a deployment without AI model and store
InitAlerts ==
  /\ WeatherInit /\ AlertsInit /\ PredictIdle /\ ConsultIdle
  /\ retryLimit = maxRetries
  /\ aiModelUrl = Undefined /\ store = << >>

SpecAlerts == InitAlerts /\ [][AlertsNext]_vars

\* requests for a prediction, in every deployment
InitPredict ==
  /\ WeatherInit /\ AlertsInit /\ PredictIdle /\ ConsultIdle
  /\ retryLimit = maxRetries
  /\ aiModelUrl \in ModelUrls /\ store \in Stores

SpecPredict == InitPredict /\ [][PredictNext]_vars

\* each await of a fetch in flight settles: the HTTP client has a timeout
\* and the timer of a wait fires
SpecAlertsFair == SpecAlerts /\ WF_vars(FetchNext)

RetryNext ==
  \/ RetryCall
  \/ RetryCallReturns
  \/ FetchNext

\* retryApiCall under every maxRetries from 1 to MaxRetryLimit
InitRetry ==
  /\ WeatherInit /\ AlertsInit /\ PredictIdle /\ ConsultIdle
  /\ retryLimit \in 1..MaxRetryLimit
  /\ aiModelUrl = Undefined /\ store = << >>

SpecRetry == InitRetry /\ [][RetryNext]_vars

\* two requests on one consultation, assignExpert or rateConsultation each
InitConsult ==
  /\ WeatherInit /\ AlertsInit /\ PredictIdle
  /\ retryLimit = maxRetries
  /\ aiModelUrl = Undefined /\ store = << >>
  /\ consultation \in StoredConsultations
  /\ requests = [r \in Slots |-> IdleRequest]

SpecConsult == InitConsult /\ [][ConsultNext]_vars

---------------------------------------------------------------------------
(* Claims on the weather risk analyzer and the alerts                      *)

\* getAgricultureAlerts has returned from its try block: both readings analysed
AlertsAnalysed == al_pc = "done" /\ ~alResult.error

HasAlert(type) == \E i \in 1..Len(alResult.alerts) : alResult.alerts[i].type = type

CountAlerts(type) ==
  Cardinality({i \in 1..Len(alResult.alerts) : alResult.alerts[i].type = type})

\* C1: the assessment of a reading is "low" exactly when none of the five
\* risk rules fired, and then its risks are the single optimal entry
C1_LowIffNoRuleFired ==
  AlertsAnalysed =>
    /\ (currentRisk.overallRisk = "low") <=> (Len(FiredRisks(currentWeather)) = 0)
    /\ Len(FiredRisks(currentWeather)) = 0
         => currentRisk.risks = <<Risk("optimal", "low")>>

\* C2: the assessment is "high" iff the returned risks list has more than 2
\* entries and "medium" iff it has 1 or 2
C2_OverallRiskByLength ==
  AlertsAnalysed =>
    /\ (currentRisk.overallRisk = "high") <=> (Len(currentRisk.risks) > 2)
    /\ (currentRisk.overallRisk = "medium") <=> (Len(currentRisk.risks) \in {1, 2})

C2_Witness ==
  /\ AlertsAnalysed
  /\ currentRisk.overallRisk = "high"
  /\ Len(currentRisk.risks) = 3

\* the number of risk rules whose condition holds of a forecast item's
\* temperature.current, humidity and weather.main
RuleConditionsHolding(item) ==
  LET t == item.temperature.v
      rain == includes(item.main, S("Rain"))
  IN  (IF item.humidity > 80 THEN 1 ELSE 0)
    + (IF t > 35 \/ t < 10 THEN 1 ELSE 0)
    + (IF rain /\ item.humidity > 70 THEN 1 ELSE 0)
    + (IF item.humidity < 30 /\ ~rain THEN 1 ELSE 0)

\* C7: exactly one forecast-warning alert, of severity medium, is emitted if
\* one of the first 24 forecast items has conditions under which more than 2
\* risk rules fire, and none otherwise
C7_ForecastWarningIffHighItem ==
  AlertsAnalysed =>
    LET window == upcomingDays(forecast.forecast)
        high == \E i \in 1..Len(window) : RuleConditionsHolding(window[i]) > 2
    IN  /\ high => CountAlerts("forecast-warning") = 1
        /\ ~high => CountAlerts("forecast-warning") = 0
        /\ \A i \in 1..Len(alResult.alerts) :
             alResult.alerts[i].type = "forecast-warning"
               => alResult.alerts[i].severity = "medium"

\* C8: a current-weather alert is emitted exactly when the assessment of the
\* current reading is not "low"; a reading on which no rule fires gives none
C8_CurrentAlertIffNotLow ==
  AlertsAnalysed =>
    /\ HasAlert("current-weather") <=> (currentRisk.overallRisk # "low")
    /\ Len(FiredRisks(currentWeather)) = 0 => ~HasAlert("current-weather")

\* C9: getAgricultureAlerts never raises; alertCount is the length of alerts,
\* which holds at most two alerts, a current-weather alert before a
\* forecast-warning alert
C9_AlertsTotal ==
  al_pc = "done" =>
    /\ ~alResult.raised
    /\ alResult.alertCount = Len(alResult.alerts)
    /\ Len(alResult.alerts) <= 2
    /\ \A i, j \in 1..Len(alResult.alerts) :
         (i < j) => ~(/\ alResult.alerts[i].type = "forecast-warning"
                      /\ alResult.alerts[j].type = "current-weather")

\* a live reading without weather.main: the body throws, the outer catch answers
C9_Witness ==
  /\ al_pc = "done"
  /\ ~curFailed
  /\ currentWeather.main = Undefined
  /\ alResult.error
  /\ alResult.alertCount = 0

\* C10: a failed current-weather retrieval is answered on the default reading
\* 25 / 60 / Clear with dataSource "fallback"; a failed forecast retrieval
\* gives no forecast-warning alert
C10_FallbackOnFailure ==
  al_pc = "done" =>
    /\ curFailed =>
         /\ currentWeather.temperature = Num(25)
         /\ currentWeather.humidity = 60
         /\ currentWeather.main = S("Clear")
         /\ currentRisk = analyzeWeatherRisk(Reading(Num(25), 60, S("Clear"), TRUE))
         /\ alResult.dataSource = "fallback"
    /\ fcFailed => ~HasAlert("forecast-warning")

\* every attempt of both retrievals failed
C10_Witness ==
  /\ al_pc = "done"
  /\ apiKey
  /\ curFailed /\ fcFailed
  /\ Len(waits) = maxRetries - 1
  /\ alResult.dataSource = "fallback"

---------------------------------------------------------------------------
(* Claims on predictDisease and the rule-based scorer                      *)

\* both JavaScript values are numbers and a <= b
NumLE(a, b) == a.kind = "number" /\ b.kind = "number" /\ a.v <= b.v

\* no read of the disease store threw while the request was served
StoreAnswered == findOutcome # "threw" /\ detailsOutcome # "threw"

\* C3: when the configured AI model fails, by an error or by a 2xx answer
\* with a malformed body, the request is answered 200 by the rule-based
\* scorer, with method "enhanced_rule_based"
C3_AiFailureFallsToRuleBased ==
  (pr_pc = "done" /\ aiOutcome \in {"threw", "malformed"} /\ StoreAnswered) =>
    /\ response.status = 200
    /\ response.predictionMethod = "enhanced_rule_based"

\* C4: when the AI model answers, the response carries its diseaseName,
\* confidence and alternativePredictions unchanged, with method "external_model"
C4_ExternalAnswerVerbatim ==
  (pr_pc = "done" /\ aiOutcome = "answered" /\ StoreAnswered) =>
    /\ response.status = 200
    /\ response.diseaseName = aiPrediction.diseaseName
    /\ response.confidence = aiPrediction.confidence
    /\ response.alternativePredictions = aiPrediction.alternativePredictions
    /\ response.predictionMethod = "external_model"

\* C5: every response carries at most 3 alternatives, none more confident
\* than the primary prediction, in descending order of confidence
C5_AlternativesBounded ==
  (pr_pc = "done" /\ response.status = 200) =>
    LET alts == response.alternativePredictions IN
    /\ Len(alts) <= 3
    /\ \A i \in 1..Len(alts) : NumLE(alts[i].confidence, response.confidence)
    /\ \A i, j \in 1..Len(alts) :
         i < j => NumLE(alts[j].confidence, alts[i].confidence)

\* C6: every scored candidate has a confidence in [0.10, 0.95] and the
\* scored list is in descending order of confidence
C6_ScoredInRangeAndSorted ==
  findOutcome = "answered" =>
    /\ \A i \in 1..Len(scoredDiseases) :
         /\ scoredDiseases[i].confidence >= 10
         /\ scoredDiseases[i].confidence <= 95
    /\ \A i \in 1..(Len(scoredDiseases) - 1) :
         scoredDiseases[i].confidence >= scoredDiseases[i + 1].confidence

\* three candidates scored on a reading, the first one capped at 0.95
C6_Witness ==
  /\ findOutcome = "answered"
  /\ weatherData.present
  /\ Len(scoredDiseases) >= 3
  /\ scoredDiseases[1].confidence = 95
  /\ scoredDiseases[Len(scoredDiseases)].confidence < 95

---------------------------------------------------------------------------
(* Claims on totality, the choice of the strategy and the candidates       *)

\* an assessment as analyzeWeatherRisk returns it
ValidAssessment(a) ==
  /\ a.overallRisk \in {"low", "medium", "high"}
  /\ Len(a.risks) >= 1

\* C11: analyzeWeatherRisk returns a valid assessment for every reading it
\* is given, also for a reading without a textual weather condition
C11_AnalyzeTotal ==
  al_pc = "done" =>
    /\ ~analyzeThrows(currentWeather)
    /\ ValidAssessment(currentRisk)

\* the endpoint setting is absent, empty, blank or the text "undefined"
Unconfigured ==
  \/ aiModelUrl = Undefined
  \/ aiModelUrl = S("undefined")
  \/ \A i \in 1..Len(aiModelUrl) : aiModelUrl[i] = " "

\* C12: without a configured endpoint the AI model is never called and the
\* first strategy started for a request is the rule-based scorer
C12_NoCallUnlessConfigured ==
  Unconfigured =>
    /\ pr_pc # "ai"
    /\ aiOutcome = "none"
    /\ \A i \in 1..Len(tried) : tried[i] # "external_model"
    /\ pr_pc \in {"score", "details"} => tried # << >>
    /\ tried # << >> => tried[1] = "rule_based"

\* a request served by the scorer under a blank setting
C12_Witness ==
  /\ aiModelUrl = S("  ")
  /\ pr_pc = "done"
  /\ tried = <<"rule_based">>
  /\ response.predictionMethod = "enhanced_rule_based"

\* the scorer was run for the request and the handler holds its result
ScorerReturned ==
  /\ pr_pc \in {"details", "done"}
  /\ findOutcome # "none"

\* the static fallback result of a crop type, as the claim lists it
StaticFallback(crop) ==
  IF toLowerCase(crop) = S("tomato")
    THEN [diseaseName |-> S("Early Blight"), confidence |-> Num(40)]
  ELSE IF toLowerCase(crop) = S("rice")
    THEN [diseaseName |-> S("Rice Blast"), confidence |-> Num(40)]
  ELSE [diseaseName |-> S("General Plant Disease"), confidence |-> Num(30)]

NamesOf(list) == [i \in 1..Len(list) |-> list[i].name]

\* the active records the store holds for the request's lower-cased crop type
RecordOfCrop(r) == r.cropType = toLowerCase(cropType) /\ r.isActive
StoreCandidates ==
  LET recs == SelectSeq(store, RecordOfCrop)
  IN  [i \in 1..Len(recs) |-> Disease(recs[i].name, recs[i].causes)]

\* the names of the static catalog of the request's crop type
StaticNames ==
  IF toLowerCase(cropType) = S("tomato")
    THEN <<S("Early Blight"), S("Late Blight"), S("Bacterial Speck")>>
  ELSE IF toLowerCase(cropType) = S("rice")
    THEN <<S("Rice Blast"), S("Brown Spot")>>
  ELSE <<S("General Plant Disease")>>

C15_StoreFailureUsesCatalog ==
  (ScorerReturned /\ findOutcome = "threw") =>
    aiPrediction = RuleBasedPrediction(<< >>, cropType, weatherData)

---------------------------------------------------------------------------
(* Claims on the scorer's results and the response                         *)

\* the scorer ran on the static tomato catalog with the reading 18 / 90 / Rain
CoolWetTomato ==
  /\ findOutcome = "answered"
  /\ store = << >>
  /\ cropType = S("tomato")
  /\ weatherData = Weather(Reading(Num(18), 90, S("Rain"), FALSE))

\* C16: on an empty store, tomato and the reading 18 / 90 / Rain the scored
\* list holds Late Blight with a weather bonus, its confidence at least 0.75,
\* at most 0.95 and above its base of 0.55
C16_LateBlightCoolWet ==
  CoolWetTomato =>
    \E i \in 1..Len(scoredDiseases) :
      /\ scoredDiseases[i].name = S("Late Blight")
      /\ \E k \in 1..Len(scoredDiseases[i].factors) :
           scoredDiseases[i].factors[k] = "Weather"
      /\ scoredDiseases[i].confidence >= 75
      /\ scoredDiseases[i].confidence <= 95
      /\ scoredDiseases[i].confidence > 55

\* Late Blight leads the response of that request
C16_Witness ==
  /\ CoolWetTomato
  /\ pr_pc = "done"
  /\ response.diseaseName = S("Late Blight")
  /\ response.confidence = Num(90)

\* a request for the crop type no catalog knows, without weather reading
\* and without a call of the AI model, was answered 200
UnknownCropAnswered ==
  /\ pr_pc = "done"
  /\ response.status = 200
  /\ cropType = S("unknown_crop")
  /\ ~weatherData.present
  /\ aiOutcome = "none"

RuleBasedResult ==
  /\ pr_pc \in {"details", "done"}
  /\ findOutcome = "answered"

\* no two candidates carry the same name
DistinctNames ==
  \A a, b \in 1..Len(diseases) : a # b => diseases[a].name # diseases[b].name

\* C18: in a rule-based result the alternatives are the candidates at ranks
\* 2 to 4 of the scored list, each named as a candidate of the crop type,
\* and none of them is the primary
C18_AlternativesAreRanked ==
  RuleBasedResult =>
    LET alts == aiPrediction.alternativePredictions IN
    /\ aiPrediction.diseaseName = scoredDiseases[1].name
    /\ Len(alts) = Min(Len(scoredDiseases) - 1, 3)
    /\ \A i \in 1..Len(alts) :
         /\ alts[i].diseaseName = scoredDiseases[i + 1].name
         /\ alts[i].confidence = Num(scoredDiseases[i + 1].confidence)
         /\ \E j \in 1..Len(diseases) : diseases[j].name = alts[i].diseaseName
         /\ DistinctNames => alts[i].diseaseName # aiPrediction.diseaseName
    /\ DistinctNames =>
         \A i, j \in 1..Len(alts) : i # j => alts[i].diseaseName # alts[j].diseaseName

\* five candidates from the store, three of them alternatives
C18_Witness ==
  /\ RuleBasedResult
  /\ DistinctNames
  /\ Len(diseases) = 5
  /\ Len(aiPrediction.alternativePredictions) = 3
  /\ pr_pc = "done"
  /\ response.alternativePredictions = aiPrediction.alternativePredictions

\* the confidence is a number with lo <= c < hi, in hundredths
InBand(c, lo, hi) == c.kind = "number" /\ lo <= c.v /\ c.v < hi

\* C19: every answer carries the recommendation of the band of its primary
\* confidence c: below 0.4, from 0.4 below 0.6, from 0.6 below 0.8, and the
\* text on treatment guidelines only when c is at least 0.8
C19_RecommendationByBand ==
  (pr_pc = "done" /\ response.status = 200) =>
    LET c == response.confidence
        text == response.recommendation
    IN  /\ (text = "Very low confidence prediction. Strongly recommend consulting an agricultural expert.")
             <=> (c.kind = "number" /\ c.v < 40)
        /\ (text = "Low confidence prediction. Consider consulting an expert for confirmation.")
             <=> InBand(c, 40, 60)
        /\ (text = "Moderate confidence prediction. Monitor closely and take preventive measures.")
             <=> InBand(c, 60, 80)
        /\ (text = "High confidence prediction. Follow recommended treatment guidelines.")
             <=> (c.kind = "number" /\ c.v >= 80)

\* the same statement of the answers whose confidence is a number
C19_NumericOnly ==
  response.confidence.kind = "number" => C19_RecommendationByBand

---------------------------------------------------------------------------
(* Claims on the weather retrieval                                         *)

\* getWeatherData is in flight for getAgricultureAlerts
GettingWeather == al_pc = "current" /\ call = "getWeatherData"

\* getWeatherData has returned to getAgricultureAlerts
GotWeather == al_pc = "current" /\ call = "returned"

\* at most 3 attempts, each one after the first following a failed one, and
\* the fixed fallback reading after a failure
AttemptsBounded ==
  /\ attempt \in 0..3
  /\ (GettingWeather /\ attempt >= 1) => Len(waits) = attempt - 1
  /\ GotWeather =>
       /\ attempt = 0
       /\ Len(waits) + 1 <= 3
       /\ retFailed =>
            /\ ret.temperature = Num(25)
            /\ ret.humidity = 60
            /\ ret.main = S("Clear")
            /\ ret.error

\* C20: getWeatherData makes at most 3 attempts per call, makes none after a
\* successful one, returns the fallback reading 25 / 60 / Clear with its
\* error marker after the third failure, and returns in every case
C20_BoundedAttemptsAndReturn ==
  /\ []AttemptsBounded
  /\ GettingWeather ~> GotWeather

\* three attempts failed and the fallback reading came back
C20_Witness ==
  /\ GotWeather
  /\ apiKey
  /\ waits = <<1000, 2000>>
  /\ retFailed
  /\ ret = Reading(Num(25), 60, S("Clear"), TRUE)

---------------------------------------------------------------------------
(* Claims on the order of the strategies and on a bare deployment          *)

\* C21: within a request the strategies start in the order external model,
\* rule-based scorer, static fallback; the external model is called at most
\* once, the scorer runs at most once and never after an answer of the
\* external model
C21_StrategiesInOrder ==
  /\ tried \in { << >>,
                 <<"external_model">>,
                 <<"external_model", "rule_based">>,
                 <<"external_model", "rule_based", "fallback">>,
                 <<"rule_based">>,
                 <<"rule_based", "fallback">> }
  /\ aiOutcome \in {"answered", "malformed"} =>
       /\ tried = <<"external_model">>
       /\ findOutcome = "none"

\* the scorer answered after the one call of the external model failed
C21_Witness ==
  /\ pr_pc = "done"
  /\ aiOutcome = "threw"
  /\ tried = <<"external_model", "rule_based">>
  /\ findOutcome = "answered"
  /\ response.predictionMethod = "enhanced_rule_based"

\* neither the AI model's endpoint nor the weather API key is configured
BareDeployment == ~apiKey /\ Unconfigured

\* the base score of a candidate: the table's value is between 0.35 and 0.65
BaseOf(i) == getBaseConfidence(scoredDiseases[i].name, cropType)

---------------------------------------------------------------------------
(* Claims on the scorer's arithmetic, in hundredths                        *)

\* one of the words occurs in the text
Mentions(text, words) == \E w \in words : includes(text, w)

\* the candidate a scored entry was made from
CandidateOf(i) ==
  CHOOSE d \in {diseases[j] : j \in 1..Len(diseases)} : d.name = scoredDiseases[i].name

\* the bonuses as the claim states them, for a candidate and the request's reading
ClaimedWeatherBonus(d) ==
  LET causesText == toLowerCase(join(d.causes))
      nameText == toLowerCase(d.name)
      t == weatherData.reading.temperature.v
      h == weatherData.reading.humidity
  IN  IF ~weatherData.present THEN 0
      ELSE (IF /\ h > 70
               /\ \/ Mentions(causesText, {S("fungal"), S("humid"), S("moisture")})
                  \/ Mentions(nameText, {S("blight")})
              THEN 15 ELSE 0)
         + (IF /\ 25 < t /\ t < 35
               /\ Mentions(causesText, {S("warm")}) \/ Mentions(nameText, {S("blast")})
              THEN 10 ELSE 0)
         + (IF /\ t < 20 /\ h > 80
               /\ Mentions(nameText, {S("late blight")}) \/ Mentions(causesText, {S("cool")})
              THEN 20 ELSE 0)

ClaimedSeasonalBonus(d) ==
  LET nameText == toLowerCase(d.name)
      t == weatherData.reading.temperature.v
      h == weatherData.reading.humidity
  IN  IF ~weatherData.present THEN 0
      ELSE (IF t > 30 /\ Mentions(nameText, {S("bacterial"), S("wilt")})
              THEN 10 ELSE 0)
         + (IF /\ 20 < t /\ t < 30 /\ h > 60
               /\ Mentions(nameText, {S("blight"), S("spot"), S("blast")})
              THEN 10 ELSE 0)

Clamp(x, lo, hi) == IF x < lo THEN lo ELSE IF x > hi THEN hi ELSE x

\* C23: every scored confidence is clamp(base + weather + seasonal, 0.10,
\* 0.95) with the weather bonus the sum of the three rules, the seasonal
\* bonus the sum of the two, both 0 without a reading, and the base 0.35
\* for a pair the table does not hold
C23_ConfidenceFormula ==
  findOutcome = "answered" =>
    \A i \in 1..Len(scoredDiseases) :
      /\ scoredDiseases[i].confidence =
           Clamp(BaseOf(i) + ClaimedWeatherBonus(CandidateOf(i))
                           + ClaimedSeasonalBonus(CandidateOf(i)), 10, 95)
      /\ toLowerCase(cropType) \notin {S("tomato"), S("rice")} => BaseOf(i) = 35

\* Rice Blast on a warm, humid reading: two weather rules and a seasonal one
C23_Witness ==
  /\ findOutcome = "answered"
  /\ weatherData.present
  /\ weatherData.reading.temperature = Num(28)
  /\ weatherData.reading.humidity = 75
  /\ scoredDiseases[1].name = S("Rice Blast")
  /\ ClaimedWeatherBonus(CandidateOf(1)) = 25
  /\ ClaimedSeasonalBonus(CandidateOf(1)) = 10
  /\ scoredDiseases[1].confidence = 95

\* the place of a scored entry's candidate in the candidate list
PlaceOf(i) ==
  CHOOSE j \in 1..Len(diseases) : diseases[j].name = scoredDiseases[i].name

\* C24: candidates of equal confidence stand in the scored list in the order
\* of the candidate list
C24_TiesKeepCandidateOrder ==
  findOutcome = "answered" =>
    \A i, j \in 1..Len(scoredDiseases) :
      (i < j /\ scoredDiseases[i].confidence = scoredDiseases[j].confidence)
        => PlaceOf(i) < PlaceOf(j)

\* Late Blight and Bacterial Speck of the static tomato catalog tie at 0.55
\* on a hot, dry reading: 0.55 and 0.45 + 0.10
C24_Witness ==
  /\ findOutcome = "answered"
  /\ store = << >>
  /\ cropType = S("tomato")
  /\ weatherData.present
  /\ weatherData.reading.temperature = Num(32)
  /\ weatherData.reading.humidity = 50
  /\ scoredDiseases[2].name = S("Late Blight")
  /\ scoredDiseases[3].name = S("Bacterial Speck")
  /\ scoredDiseases[2].confidence = scoredDiseases[3].confidence

---------------------------------------------------------------------------
(* Claims on the risks and the recommendations of an assessment            *)

\* the risks the claim lists for the current reading, in its order
ClaimedRisks ==
  LET t == currentWeather.temperature.v
      h == currentWeather.humidity
      rain == includes(currentWeather.main, S("Rain"))
  IN     (IF h > 80 THEN <<Risk("high-humidity", "high")>> ELSE << >>)
      \o (IF t > 35 THEN <<Risk("heat-stress", "medium")>>
          ELSE IF t < 10 THEN <<Risk("cold-stress", "medium")>> ELSE << >>)
      \o (IF rain /\ h > 70 THEN <<Risk("wet-conditions", "high")>> ELSE << >>)
      \o (IF h < 30 /\ ~rain THEN <<Risk("drought-stress", "medium")>> ELSE << >>)

\* C25: the returned risks are exactly those whose rule holds of the
\* reading, in the order high-humidity, heat-stress or cold-stress,
\* wet-conditions, drought-stress; the optimal entry stands alone and only
\* when no rule holds
C25_RisksAreTheRulesThatHold ==
  AlertsAnalysed =>
    /\ ClaimedRisks # << >> => currentRisk.risks = ClaimedRisks
    /\ ClaimedRisks = << >> => currentRisk.risks = <<Risk("optimal", "low")>>
    /\ \A i \in 1..Len(currentRisk.risks) :
         currentRisk.risks[i].type = "optimal" => ClaimedRisks = << >>

\* a cold, humid, rainy reading: three risks in the order of the rules
C25_Witness ==
  /\ AlertsAnalysed
  /\ currentWeather.temperature = Num(5)
  /\ currentRisk.risks = << Risk("high-humidity", "high"),
                            Risk("cold-stress", "medium"),
                            Risk("wet-conditions", "high") >>

\* the recommendations of the returned risks' types, one list after another
ListsOfRisks ==
  [i \in 1..Len(currentRisk.risks) |-> RecommendationsFor(currentRisk.risks[i].type)]

\* text stands in the list of the i-th returned risk at place k
StandsAt(text, i, k) == k \in 1..Len(ListsOfRisks[i]) /\ ListsOfRisks[i][k] = text

\* the first place of a text in the concatenation, as a pair <<risk, place>>
FirstPlace(text) ==
  CHOOSE p \in (1..Len(currentRisk.risks)) \X (1..3) :
    /\ StandsAt(text, p[1], p[2])
    /\ \A q \in (1..Len(currentRisk.risks)) \X (1..3) :
         StandsAt(text, q[1], q[2]) => (p[1] < q[1] \/ (p[1] = q[1] /\ p[2] <= q[2]))

Earlier(p, q) == p[1] < q[1] \/ (p[1] = q[1] /\ p[2] < q[2])

\* C26: the recommendations are the lists of the returned risks' types,
\* three strings each and one for optimal, concatenated in the order of the
\* risks with duplicates removed, the first occurrence kept
C26_RecommendationsOfRisks ==
  AlertsAnalysed =>
    LET recs == currentRisk.recommendations IN
    /\ \A i \in 1..Len(currentRisk.risks) :
         /\ Len(ListsOfRisks[i]) = IF currentRisk.risks[i].type = "optimal" THEN 1 ELSE 3
         /\ \A k \in 1..Len(ListsOfRisks[i]) :
              \E n \in 1..Len(recs) : recs[n] = ListsOfRisks[i][k]
    /\ \A n \in 1..Len(recs) :
         \E i \in 1..Len(currentRisk.risks) : \E k \in 1..3 : StandsAt(recs[n], i, k)
    /\ \A n, m \in 1..Len(recs) :
         n < m => (recs[n] # recs[m] /\ Earlier(FirstPlace(recs[n]), FirstPlace(recs[m])))

\* three risks, nine recommendations
C26_Witness ==
  /\ AlertsAnalysed
  /\ Len(currentRisk.risks) = 3
  /\ Len(currentRisk.recommendations) = 9
  /\ currentRisk.recommendations[1] = "Ensure good air circulation around plants"
  /\ currentRisk.recommendations[9] = "Apply preventive copper-based fungicides"

---------------------------------------------------------------------------
(* Claims on retryApiCall's waits                                          *)

\* C27: the first wait is the base delay, each later wait is the wait
\* before it times one constant factor greater than 1, and no wait follows
\* the last failed attempt
C27_ExponentialBackoff ==
  /\ Len(waits) >= 1 => waits[1] = 1000
  /\ Len(waits) >= 2 => waits[2] > waits[1]
  /\ \A i \in 2..(Len(waits) - 1) :
       waits[i + 1] * waits[1] = waits[i] * waits[2]
  /\ (call = "returned" /\ retFailed /\ attempt = 0) => Len(waits) <= retryLimit - 1


\* the score of a scored entry before Math.min and Math.max
RawScoreOf(i) ==
  BaseOf(i) + getWeatherScore(CandidateOf(i), weatherData)
            + getSeasonalScore(CandidateOf(i), weatherData)

\* C28: the weather and seasonal bonuses of a candidate sum to at most 0.35,
\* the warm and the cool-wet rule never both fire, nor the two seasonal
\* rules; so every scored confidence is at least 0.35, the 0.10 floor never
\* takes effect and the 0.95 cap only for a base above 0.60
C28_BonusAtMost35 ==
  (findOutcome = "answered" /\ weatherData.present) =>
    \A i \in 1..Len(scoredDiseases) :
      LET d == CandidateOf(i)
          w == weatherData.reading
      IN  /\ getWeatherScore(d, weatherData) + getSeasonalScore(d, weatherData) <= 35
          /\ ~(WarmRule(d, w) /\ CoolWetRule(d, w))
          /\ ~(SummerRule(d, w) /\ MonsoonRule(d, w))
          /\ scoredDiseases[i].confidence >= 35
          /\ RawScoreOf(i) >= 10
          /\ RawScoreOf(i) > 95 => BaseOf(i) > 60
          /\ scoredDiseases[i].confidence = Min(RawScoreOf(i), 95)

\* a candidate whose bonuses reach 0.35 on a base above 0.60: the cap acts
C28_Witness ==
  /\ findOutcome = "answered"
  /\ weatherData.present
  /\ \E i \in 1..Len(scoredDiseases) :
       /\ getWeatherScore(CandidateOf(i), weatherData)
            + getSeasonalScore(CandidateOf(i), weatherData) = 35
       /\ BaseOf(i) > 60
       /\ RawScoreOf(i) > 95
       /\ scoredDiseases[i].confidence = 95

\* the assignExpert requests answered 200
AssignSucceeded(r) == requests[r].op = "assign" /\ requests[r].status = 200

RateSucceeded(r) == requests[r].op = "rate" /\ requests[r].status = 200

\* a rating value between 1 and 5
ValidRating(rating) == rating.kind = "number" /\ rating.v \in 1..5

=============================================================================
